---- MODULE Spec2Model ----
(***************************************************************************)
(* Model of app.py: the sensor_data table, the upload / latest / history   *)
(* routes and the analysis functions ai_risk_analysis, detect_anomaly,     *)
(* predict_trend, ai_exit_guidance and ai_health_and_food_advice.          *)
(*                                                                         *)
(* Units.  pm25 is kept as an integer.  mq135 and ph are kept in tenths,   *)
(* so the literal 1.2 of app.py:52 is 12 and 6.5 / 8.5 of app.py:59 are    *)
(* 65 / 85.  Times are whole seconds (strftime "%S" resolution).           *)
(***************************************************************************)
EXTENDS Integers, Sequences, FiniteSets

VARIABLES
    store,      \* the rows of table sensor_data, in id order (row i has id i)
    now,        \* the wall clock, seconds
    req,        \* the get_latest call in flight: its position and fetched row
    response,   \* the body of the last response sent by a route
    call        \* the last direct call of an analysis function, with result

vars == <<store, now, req, response, call>>

\* SQL NULL / Python None of a REAL column.  Sensor values are >= 0.
NULL == -1

\* ------------------------------------------------------------------ bounds
MaxReadings == 3    \* uploads per behaviour
MaxTicks == 2       \* clock advances per behaviour (30 s each)
MaxLen == 5         \* longest sequence handed directly to a function

\* ------------------------------------------------------------ input values
PmValues == {0, 50, 75, 80, 81, 150, 151, 200}
MqValues == {0, 12, 13, 30}
PhValues == {60, 64, 65, 70, 85, 86, 90}
SeqValues == {0, 50, 60, 75}
CurrentValues == {NULL, 0, 50, 75, 76, 93, 200}

Opt(S) == S \cup {NULL}

SeqsUpTo(S, n) == UNION {[1..k -> S] : k \in 0..n}

\* ------------------------------------------------------------ Python lists
\* values[i] for a negative index i (values[-1] is the last element)
PyNegIndex(values, i) == values[Len(values) + 1 + i]

RECURSIVE PySum(_)
PySum(history) ==
    IF history = <<>> THEN 0 ELSE Head(history) + PySum(Tail(history))

\* rows[::-1]
RECURSIVE PyReversed(_)
PyReversed(rows) ==
    IF rows = <<>> THEN <<>> ELSE Append(PyReversed(Tail(rows)), Head(rows))

\* Exact quotients: a / b as the pair (n, d), d > 0
Quot(a, b) == [n |-> a, d |-> b]
\* q * 1.5
TimesOneAndHalf(q) == [n |-> q.n * 3, d |-> q.d * 2]
\* x > q for an integer x
GreaterThanQuot(x, q) == x * q.d > q.n

\* ------------------------------------------------------- ai_risk_analysis
TypeError == [raised |-> "TypeError"]

RiskStart == [risk |-> "SAFE", insights |-> <<>>]

Flag(st, risk, insight) ==
    [risk |-> risk, insights |-> Append(st.insights, insight)]

\* app.py:41-50
RiskAfterPm25(st, pm25) ==
    IF pm25 > 150 THEN Flag(st, "DANGER", "PM25_CRITICAL")
    ELSE IF pm25 > 80 THEN Flag(st, "WARNING", "PM25_ELEVATED")
    ELSE st

\* app.py:52-57
RiskAfterMq135(st, mq135) ==
    IF mq135 # NULL /\ mq135 > 12 THEN Flag(st, "WARNING", "TOXIC_GAS") ELSE st

\* app.py:59-63
RiskAfterPh(st, ph) ==
    IF ph # NULL /\ (ph < 65 \/ ph > 85) THEN Flag(st, "WARNING", "PH_RANGE")
    ELSE st

\* ai_risk_analysis(data): the pair (risk, insights), or the TypeError that
\* "pm25 > 150" raises for pm25 = None (app.py:41 has no None guard).
\* app.py:34-36 bind mq135 and ph from data; the statement binding pm25 is
\* absent there and app.py:36 rebinds ph from the unbound name "sensor".
\* The model takes all three from data, as get_latest passes them
\* (app.py:205-209): with the key present, data.get("ph", 7) is data["ph"].
ai_risk_analysis(data) ==
    IF data.pm25 = NULL THEN TypeError
    ELSE RiskAfterPh(RiskAfterMq135(RiskAfterPm25(RiskStart, data.pm25),
                                    data.mq135),
                     data.ph)

\* --------------------------------------------------------- detect_anomaly
\* detect_anomaly with ">=" for ">" in its last line
detect_anomaly_inclusive(current, history) ==
    IF Len(history) < 3 \/ current = NULL THEN FALSE
    ELSE LET avg == Quot(PySum(history), Len(history))
             limit == TimesOneAndHalf(avg)
         IN  current * limit.d >= limit.n

detect_anomaly(current, history) ==
    IF Len(history) < 3 \/ current = NULL THEN FALSE
    ELSE LET avg == Quot(PySum(history), Len(history))
         IN  GreaterThanQuot(current, TimesOneAndHalf(avg))

\* ---------------------------------------------------------- predict_trend
\* predict_trend with ">=" / "<=" for its strict comparisons
predict_trend_nonstrict(values) ==
    IF Len(values) < 3 THEN "STABLE"
    ELSE IF PyNegIndex(values, -1) >= PyNegIndex(values, -2)
            /\ PyNegIndex(values, -2) >= PyNegIndex(values, -3)
         THEN "INCREASING"
    ELSE IF PyNegIndex(values, -1) <= PyNegIndex(values, -2)
            /\ PyNegIndex(values, -2) <= PyNegIndex(values, -3)
         THEN "DECREASING"
    ELSE "STABLE"

predict_trend(values) ==
    IF Len(values) < 3 THEN "STABLE"
    ELSE IF PyNegIndex(values, -1) > PyNegIndex(values, -2)
            /\ PyNegIndex(values, -2) > PyNegIndex(values, -3)
         THEN "INCREASING"
    ELSE IF PyNegIndex(values, -1) < PyNegIndex(values, -2)
            /\ PyNegIndex(values, -2) < PyNegIndex(values, -3)
         THEN "DECREASING"
    ELSE "STABLE"

\* ------------------------------------------------------- advisory payloads
ai_exit_guidance(risk) ==
    IF risk = "DANGER" THEN [message |-> "EVACUATE_EXIT_B", priority |-> "HIGH"]
    ELSE IF risk = "WARNING"
         THEN [message |-> "REDUCE_EXPOSURE", priority |-> "MEDIUM"]
    ELSE [message |-> "NO_EVACUATION", priority |-> "LOW"]

ai_health_and_food_advice(risk) ==
    IF risk = "DANGER" THEN "ADVICE_DANGER"
    ELSE IF risk = "WARNING" THEN "ADVICE_WARNING"
    ELSE "ADVICE_NORMAL"

\* ------------------------------------------------------------- the table
\* LIMIT of the pm25 history query and of the graph query
HistoryLimit == 5
GraphLimit == 10

\* JSON bodies a station posts; a key it leaves out reads as None (data.get)
Body(pm25, mq135, ph, heartRate, spo2) ==
    [pm25 |-> pm25, mq135 |-> mq135, ph |-> ph,
     heartRate |-> heartRate, spo2 |-> spo2]

Payloads ==
    { Body(50, NULL, NULL, NULL, NULL),
      Body(60, NULL, NULL, NULL, NULL),
      Body(200, NULL, NULL, NULL, NULL),
      Body(NULL, NULL, 72, NULL, NULL),
      Body(75, 20, 90, 72, 98) }

\* INSERT OR REPLACE under a reused id: the newest row is overwritten
InsertRowReplacing(rows, data, time) ==
    LET n == IF rows = <<>> THEN 1 ELSE Len(rows)
    IN  [i \in 1..n |->
            IF i < n THEN rows[i]
            ELSE [id |-> n, pm25 |-> data.pm25, mq135 |-> data.mq135,
                  ph |-> data.ph, heartRate |-> data.heartRate,
                  spo2 |-> data.spo2, time |-> time]]

\* INSERT INTO sensor_data: the new row takes the next id, after all others
InsertRow(rows, data, time) ==
    Append(rows, [id |-> Len(rows) + 1, pm25 |-> data.pm25,
                  mq135 |-> data.mq135, ph |-> data.ph,
                  heartRate |-> data.heartRate, spo2 |-> data.spo2,
                  time |-> time])

\* SELECT ... ORDER BY id DESC LIMIT n: the newest n rows, newest first
SelectDescLimit(rows, n) ==
    LET k == IF Len(rows) < n THEN Len(rows) ELSE n
    IN  [i \in 1..k |-> rows[Len(rows) + 1 - i]]

\* cursor.fetchone() of "ORDER BY id DESC LIMIT 1": <<>> is None
FetchLatestRow(rows) == SelectDescLimit(rows, 1)

RECURSIVE NotNone(_)
NotNone(values) ==
    IF values = <<>> THEN <<>>
    ELSE IF Head(values) # NULL THEN <<Head(values)>> \o NotNone(Tail(values))
    ELSE NotNone(Tail(values))

\* pm_history = [r[0] for r in cursor.fetchall() if r[0] is not None]
FetchPmHistory(rows) ==
    LET fetched == SelectDescLimit(rows, HistoryLimit)
    IN  NotNone([i \in 1..Len(fetched) |-> fetched[i].pm25])

\* ------------------------------------------------------------- responses
NoResponse == [kind |-> "none"]
NoData == [kind |-> "nodata", message |-> "No data available"]
ServerError == [kind |-> "error", raised |-> "TypeError"]
Stored == [kind |-> "stored", status |-> "Data stored successfully"]

\* the JSON body get_latest builds from the fetched row and pm_history
Report(row, pm_history) ==
    LET analysis == ai_risk_analysis([pm25 |-> row.pm25, mq135 |-> row.mq135,
                                      ph |-> row.ph])
    IN  IF analysis = TypeError THEN ServerError
        ELSE [kind |-> "report",
              timestamp |-> row.time,
              sensor_data |-> [pm25 |-> row.pm25, mq135 |-> row.mq135,
                               ph |-> row.ph, heartRate |-> row.heartRate,
                               spo2 |-> row.spo2],
              ai |-> [risk_level |-> analysis.risk,
                      ai_insights |-> analysis.insights,
                      anomaly_detected |-> detect_anomaly(row.pm25, pm_history),
                      trend |-> predict_trend(pm_history),
                      exit_guidance |-> ai_exit_guidance(analysis.risk),
                      health_and_food_advice |->
                          ai_health_and_food_advice(analysis.risk)]]

\* the JSON body of /api/history: the newest rows, oldest first
HistoryBody(rows) ==
    LET fetched == PyReversed(SelectDescLimit(rows, GraphLimit))
    IN  [kind |-> "history",
         rows |-> [i \in 1..Len(fetched) |->
                      [pm25 |-> fetched[i].pm25, ph |-> fetched[i].ph,
                       time |-> fetched[i].time]]]

\* ---------------------------------------------------------------- routes
Idle == [pc |-> "idle", row |-> <<>>]
NoCall == [fn |-> "none"]

\* init_db(): the table exists and is empty
Init ==
    /\ store = <<>>
    /\ now = 0
    /\ req = Idle
    /\ response = NoResponse
    /\ call = NoCall

\* POST /api/upload: one INSERT, committed
upload_data ==
    /\ Len(store) < MaxReadings
    /\ \E data \in Payloads : store' = InsertRow(store, data, now)
    /\ response' = Stored
    /\ UNCHANGED <<now, req, call>>

\* GET /api/latest, first SELECT (app.py:193-194)
get_latest_fetch_row ==
    /\ req.pc = "idle"
    /\ req' = [pc |-> "row_fetched", row |-> FetchLatestRow(store)]
    /\ UNCHANGED <<store, now, response, call>>

\* GET /api/latest, second SELECT and the response (app.py:196-230).  The
\* two SELECTs are separate statements outside any transaction, so an upload
\* served by another thread can commit between them.
get_latest_respond ==
    /\ req.pc = "row_fetched"
    /\ response' = IF req.row = <<>> THEN NoData
                   ELSE Report(req.row[1], FetchPmHistory(store))
    /\ req' = Idle
    /\ UNCHANGED <<store, now, call>>

\* GET /api/history
history ==
    /\ response' = HistoryBody(store)
    /\ UNCHANGED <<store, now, req, call>>

\* the wall clock read by datetime.now() advances
Tick ==
    /\ now < MaxTicks * 30
    /\ now' = now + 30
    /\ UNCHANGED <<store, req, response, call>>

Next ==
    \/ upload_data
    \/ get_latest_fetch_row
    \/ get_latest_respond
    \/ history
    \/ Tick

Spec == Init /\ [][Next]_vars

\* ------------------------------------------- direct calls of the functions
\* The functions keep no state between calls, so a behaviour makes one call
\* (two of ai_risk_analysis, to compare their tiers).
RiskInputs ==
    [pm25 : Opt(PmValues), mq135 : Opt(MqValues), ph : Opt(PhValues)]

\* ai_risk_analysis is called on one input, then on a second one; the record
\* keeps the earlier call beside the later one.
CallRisk ==
    /\ \/ call = NoCall
       \/ call.fn = "ai_risk_analysis" /\ call.before = <<>>
    /\ \E data \in RiskInputs :
          call' = [fn |-> "ai_risk_analysis", data |-> data,
                   result |-> ai_risk_analysis(data),
                   before |-> IF call = NoCall THEN <<>>
                              ELSE <<[data |-> call.data,
                                      result |-> call.result]>>]
    /\ UNCHANGED <<store, now, req, response>>

CallTrend ==
    /\ call = NoCall
    /\ \E values \in SeqsUpTo(SeqValues, MaxLen) :
          call' = [fn |-> "predict_trend", values |-> values,
                   result |-> predict_trend(values)]
    /\ UNCHANGED <<store, now, req, response>>

CallAnomaly ==
    /\ call = NoCall
    /\ \E current \in CurrentValues, hist \in SeqsUpTo(SeqValues, MaxLen) :
          call' = [fn |-> "detect_anomaly", current |-> current,
                   history |-> hist,
                   result |-> detect_anomaly(current, hist)]
    /\ UNCHANGED <<store, now, req, response>>

NextCalls == CallRisk \/ CallTrend \/ CallAnomaly

SpecCalls == Init /\ [][NextCalls]_vars

\* =================================================================== claims
TierRank(risk) ==
    IF risk = "DANGER" THEN 2 ELSE IF risk = "WARNING" THEN 1 ELSE 0

PmBracket(pm25) == IF pm25 > 150 THEN 2 ELSE IF pm25 > 80 THEN 1 ELSE 0
MqBracket(mq135) == IF mq135 # NULL /\ mq135 > 12 THEN 1 ELSE 0
PhBracket(ph) == IF ph # NULL /\ (ph < 65 \/ ph > 85) THEN 1 ELSE 0

\* d2 is d1 with exactly one channel moved into a higher severity bracket
RaisesOneChannel(d1, d2) ==
    \/ /\ PmBracket(d2.pm25) > PmBracket(d1.pm25)
       /\ d2.mq135 = d1.mq135 /\ d2.ph = d1.ph
    \/ /\ MqBracket(d2.mq135) > MqBracket(d1.mq135)
       /\ d2.pm25 = d1.pm25 /\ d2.ph = d1.ph
    \/ /\ PhBracket(d2.ph) > PhBracket(d1.ph)
       /\ d2.pm25 = d1.pm25 /\ d2.mq135 = d1.mq135

\* C1: the risk classification is monotonic: moving exactly one channel of
\* an input into a higher severity bracket never lowers the tier returned by
\* ai_risk_analysis (SAFE < WARNING < DANGER).
C1_Monotonic ==
    (/\ call.fn = "ai_risk_analysis"
     /\ call.before # <<>>
     /\ call.before[1].data.pm25 # NULL
     /\ call.data.pm25 # NULL
     /\ RaisesOneChannel(call.before[1].data, call.data)) =>
        TierRank(call.result.risk) >= TierRank(call.before[1].result.risk)

\* the additive score of the classifier table: each channel contributes its
\* highest applicable bracket
Score(data) ==
    (IF data.pm25 > 150 THEN 3 ELSE IF data.pm25 > 80 THEN 1 ELSE 0)
    + (IF PhBracket(data.ph) = 1 THEN 1 ELSE 0)
    + (IF MqBracket(data.mq135) = 1 THEN 2 ELSE 0)

TierOfScore(score) ==
    IF score >= 3 THEN "DANGER" ELSE IF score >= 1 THEN "WARNING" ELSE "SAFE"

\* C2: the tier returned by ai_risk_analysis is the tier of the additive
\* score: DANGER when the summed contributions are >= 3, WARNING when >= 1,
\* SAFE otherwise.
C2_AdditiveScore ==
    (call.fn = "ai_risk_analysis" /\ call.data.pm25 # NULL) =>
        call.result.risk = TierOfScore(Score(call.data))

\* C3: predict_trend(v) is STABLE when len(v) < 3; otherwise INCREASING iff
\* the last three values are strictly increasing, DECREASING iff they are
\* strictly decreasing, STABLE in every other case; the values before the
\* last three never affect the result.
C3_TrendOfLastThree ==
    call.fn = "predict_trend" =>
        LET v == call.values
            n == Len(v)
        IN  /\ n < 3 => call.result = "STABLE"
            /\ n >= 3 =>
                /\ call.result = "INCREASING" <=>
                       (v[n - 2] < v[n - 1] /\ v[n - 1] < v[n])
                /\ call.result = "DECREASING" <=>
                       (v[n - 2] > v[n - 1] /\ v[n - 1] > v[n])
                /\ call.result \in {"INCREASING", "DECREASING", "STABLE"}
                /\ \A w \in SeqsUpTo(SeqValues, MaxLen) :
                       (Len(w) >= 3
                        /\ w[Len(w) - 2] = v[n - 2]
                        /\ w[Len(w) - 1] = v[n - 1]
                        /\ w[Len(w)] = v[n]) =>
                           predict_trend(w) = call.result

\* a four-value call whose last three rise after an earlier fall
C3_Witness ==
    /\ call.fn = "predict_trend"
    /\ Len(call.values) = 4
    /\ call.values[1] > call.values[2]
    /\ call.result = "INCREASING"

\* C4: detect_anomaly(current, history) is false when len(history) < 3 or
\* current is absent; for a history of at least 3 values it is true iff
\* current > 1.5 x mean(history), i.e. 2 * current * len > 3 * sum; it is
\* true when the mean is 0 and current is positive.
C4_AnomalyThreshold ==
    call.fn = "detect_anomaly" =>
        LET h == call.history
            c == call.current
        IN  /\ (Len(h) < 3 \/ c = NULL) => call.result = FALSE
            /\ (Len(h) >= 3 /\ c # NULL) =>
                   (call.result = TRUE <=> 2 * c * Len(h) > 3 * PySum(h))
            /\ (Len(h) >= 3 /\ c # NULL /\ c > 0 /\ PySum(h) = 0) =>
                   call.result = TRUE

\* a positive current value against a history whose mean is exactly 0
C4_Witness ==
    /\ call.fn = "detect_anomaly"
    /\ Len(call.history) >= 3
    /\ PySum(call.history) = 0
    /\ call.current > 0
    /\ call.result = TRUE

\* the step in which get_latest reads the history and sends its response
Responding == req.pc = "row_fetched" /\ req'.pc = "idle"

\* the non-null pm25 values of the newest HistoryLimit rows, oldest first
ChronologicalPm(rows) ==
    LET k == IF Len(rows) < HistoryLimit THEN Len(rows) ELSE HistoryLimit
    IN  NotNone([i \in 1..k |-> rows[Len(rows) - k + i].pm25])

\* C5: the particulate history get_latest hands to the trend detector holds
\* at most 5 values, no nulls, and is ordered oldest-first, so that rising
\* uploads yield INCREASING and falling uploads DECREASING.
C5_HistoryOldestFirst ==
    [][(Responding /\ response'.kind = "report") =>
          LET h == FetchPmHistory(store)
          IN  /\ Len(h) <= 5
              /\ \A i \in 1..Len(h) : h[i] # NULL
              /\ h = ChronologicalPm(store)
              /\ response'.ai.trend = predict_trend(ChronologicalPm(store))]_vars

\* the most recent non-null value of a channel, or its default
RECURSIVE Held(_, _, _)
Held(rows, channel, default) ==
    IF rows = <<>> THEN default
    ELSE IF rows[Len(rows)][channel] # NULL THEN rows[Len(rows)][channel]
    ELSE Held(SubSeq(rows, 1, Len(rows) - 1), channel, default)

\* C6: the snapshot an assessment classifies and reports has a value for
\* every channel: the most recent non-null value of that channel, or its
\* default (ph 7.0, pm25 0) when no reading populated it; the tier is the
\* tier of that snapshot.
C6_HeldSnapshot ==
    [][(Responding /\ req.row # <<>> /\ req.row[1].pm25 # NULL) =>
          LET seen == SubSeq(store, 1, req.row[1].id)
              pm25 == Held(seen, "pm25", 0)
              ph == Held(seen, "ph", 70)
              mq135 == Held(seen, "mq135", NULL)
          IN  /\ response'.kind = "report"
              /\ response'.sensor_data.pm25 = pm25
              /\ response'.sensor_data.ph = ph
              /\ response'.ai.risk_level =
                     ai_risk_analysis([pm25 |-> pm25, mq135 |-> mq135,
                                       ph |-> ph]).risk]_vars

\* C7: an assessment evaluated 60 seconds or more after the most recent
\* reading reports status DISCONNECTED and the DISCONNECTED advisory,
\* whatever tier the stored values produce.
C7_Disconnected ==
    [][(/\ Responding
        /\ req.row # <<>>
        /\ req.row[1].pm25 # NULL
        /\ now - store[Len(store)].time >= 60) =>
          /\ response'.kind = "report"
          /\ response'.ai.risk_level = "DISCONNECTED"
          /\ response'.ai.exit_guidance.priority
                 \notin {"HIGH", "MEDIUM", "LOW"}]_vars

\* C8: the tier, the anomaly flag and the trend of one report come from one
\* state of the store: the current value is the newest reading of the read
\* the history comes from, never an older one.
C8_OneStoreState ==
    [][(Responding /\ req.row # <<>>) =>
          \E n \in 1..Len(store) :
              LET seen == SubSeq(store, 1, n)
              IN  response' = Report(seen[n], FetchPmHistory(seen))]_vars

\* C9: with an empty store get_latest returns the no-data status without a
\* risk tier; once a reading is stored it returns a report with a risk tier.
C9_NoDataOrTier ==
    [][Responding =>
          IF req.row = <<>> THEN response' = NoData
          ELSE /\ response'.kind = "report"
               /\ response'.ai.risk_level \in {"SAFE", "WARNING", "DANGER"}]_vars

\* C10: the store is append-only: an upload adds exactly one reading after
\* all existing ones and changes no stored reading; get_latest and history
\* leave the store unchanged.
C10_AppendOnly ==
    [][/\ store' # store =>
             /\ Len(store') = Len(store) + 1
             /\ SubSeq(store', 1, Len(store)) = store
             /\ store'[Len(store')].id = Len(store')
       /\ (response' = Stored /\ response # Stored) =>
             Len(store') = Len(store) + 1
       /\ (req' # req \/ (response' # response /\ response' # Stored)) =>
             store' = store]_vars

\* two readings are stored and an assessment has reported on them
C10_Witness ==
    /\ Len(store) >= 2
    /\ response.kind = "report"
    /\ response.timestamp = store[Len(store)].time

====
